---- MODULE Spec2Model ----
(***************************************************************************)
(* A model of univention/udm_user.py: one reconciliation pass of main()    *)
(* over a directory holding one user identity and its groups.  The pass is *)
(* cut into steps at its directory calls; every directory call may raise.  *)
(***************************************************************************)
EXTENDS Integers, Sequences, FiniteSets, TLC

VARIABLES dir, loc, last, passes

vars == <<dir, loc, last, passes>>

(***************************************************************************)
(* Bounds of the model.                                                    *)
(***************************************************************************)
\* number of passes of main() in one behaviour
MaxPasses == 2

\* processes that can run main(); SeqProcs run one pass at a time
Procs == {1, 2}
SeqProcs == {1}

(***************************************************************************)
(* Python values.  A str is the sequence of its tokens (one token unless   *)
(* the code splits it), a list the sequence of its items.                  *)
(***************************************************************************)
None == [kind |-> "None", val |-> <<>>]
Str(s) == [kind |-> "str", val |-> <<s>>]
StrOf(toks) == [kind |-> "str", val |-> toks]
List(q) == [kind |-> "list", val |-> q]
\* the text of a one-token str
S(v) == v.val[1]

\* keys of a users/user object (obj.keys()); uidNumber is set by the directory
UserKeys == {"username", "firstname", "lastname", "displayName", "unixhome",
             "description", "e-mail", "password", "groups", "uidNumber"}

\* keys of module.params
ParamKeys == {"username", "firstname", "lastname", "displayName", "unixhome",
              "description", "email", "password", "groups", "position", "ou",
              "subpath", "state"}

\* base_dn() of the directory
base_dn == "dc=ex"

\* the groups the directory holds, in the order a search returns them
GroupOrder == <<"A", "B">>
ExistingGroups == {GroupOrder[i] : i \in 1..Len(GroupOrder)}
GroupDn(g) == "cn=" \o g \o ",cn=groups," \o base_dn

(***************************************************************************)
(* crypt(3) and the stored form {scheme}setting digest.                    *)
(***************************************************************************)
\* the settings (method and salt) crypt accepts
Settings == {"$6$s1$", "$6$s2$"}
Digest(word, setting) == "h(" \o word \o "," \o setting \o ")"

\* crypt called with a salt of its own instead of the stored hash
crypt_ownsalt(word, salt) ==
    StrOf(<<"$6$s2$", Digest(word, "$6$s2$")>>)

\* crypt.crypt(word, salt): the digest of word under the setting that starts
\* salt; None when salt starts with no valid setting
crypt(word, salt) ==
    IF Len(salt.val) >= 1 /\ salt.val[1] \in Settings
    THEN StrOf(<<salt.val[1], Digest(word, salt.val[1])>>)
    ELSE None

\* what the directory stores for a plaintext password committed to it
StoredPassword(word, setting) ==
    StrOf(<<"{crypt", "}", setting, Digest(word, setting)>>)

\* str.split(sep, maxsplit) on the tokens of a str
RECURSIVE split(_, _, _)
split(toks, sep, maxsplit) ==
    IF maxsplit = 0 \/ ~(\E i \in 1..Len(toks) : toks[i] = sep)
    THEN <<toks>>
    ELSE LET i == CHOOSE j \in 1..Len(toks) :
                      toks[j] = sep /\ \A k \in 1..(j-1) : toks[k] # sep
         IN <<SubSeq(toks, 1, i-1)>>
                \o split(SubSeq(toks, i+1, Len(toks)), sep, maxsplit - 1)

(***************************************************************************)
(* Container and DN of the user, main() lines 433-441.                     *)
(***************************************************************************)
Container(position, ou, subpath) ==
    IF position # ""
    THEN position
    ELSE LET ou2 == IF ou # "" THEN "ou=" \o ou \o "," ELSE ou
             subpath2 == IF subpath # "" THEN subpath \o "," ELSE subpath
         IN subpath2 \o ou2 \o base_dn

UserDn(username, container) == "uid=" \o username \o "," \o container

(***************************************************************************)
(* The directory: the user record of the identity and the groups.          *)
(***************************************************************************)
\* properties of a users/user object before anything is set
BlankInfo == [k \in UserKeys |-> IF k = "groups" THEN List(<<>>) ELSE None]

NoUser == [present |-> FALSE, dn |-> "", info |-> BlankInfo]

\* ldap_search('(&(objectClass=posixAccount)(uid=...))'): the records found
ldap_search_user(d, username) ==
    IF d.user.present /\ d.user.info["username"] = Str(username)
    THEN <<d.user.dn>>
    ELSE <<>>

\* a filter that selects every posixGroup
ldap_search_groups_all(names) == GroupOrder

\* ldap_search('(&(objectClass=posixGroup)(|(cn=..)(cn=..)))'): the DNs of the
\* groups whose name is one of names, each once, in directory order
ldap_search_groups(names) ==
    SelectSeq(GroupOrder, LAMBDA g : \E i \in 1..Len(names) : names[i] = g)

\* the group DNs that list dn, as a user object shows them
GroupsOf(d, dn) ==
    LET member(g) == \E i \in 1..Len(d.groups[g]) : d.groups[g][i] = dn
        dnOf(i) == GroupDn(SelectSeq(GroupOrder, member)[i])
    IN List([i \in 1..Len(SelectSeq(GroupOrder, member)) |-> dnOf(i)])

NoObj == [kind |-> "none", position |-> "", dn |-> "",
          oldinfo |-> BlankInfo, info |-> BlankInfo]

\* umc_module_for_add('users/user', container)
umc_module_for_add(container) ==
    [kind |-> "add", position |-> container, dn |-> "",
     oldinfo |-> BlankInfo, info |-> BlankInfo]

\* umc_module_for_edit('users/user', user_dn) finds the object at user_dn
CanOpenUser(d, user_dn) == d.user.present /\ d.user.dn = user_dn

umc_module_for_edit(d, user_dn) ==
    LET loaded == [d.user.info EXCEPT !["groups"] = GroupsOf(d, user_dn)]
    IN [kind |-> "edit", position |-> "", dn |-> user_dn,
        oldinfo |-> loaded, info |-> loaded]

\* obj.hasChanged(k) and obj.diff()
hasChanged(obj, k) == obj.oldinfo[k] # obj.info[k]
ObjDiff(obj) == {<<k, obj.oldinfo[k], obj.info[k]>> : k \in {j \in UserKeys : hasChanged(obj, j)}}

\* what a commit stores for the object's properties: a changed password is
\* stored hashed under setting, the groups property lives in the groups
Committed(obj, stored, setting) ==
    [k \in UserKeys |->
        IF k = "groups" THEN List(<<>>)
        ELSE IF ~hasChanged(obj, k) THEN stored[k]
        ELSE IF k = "password" /\ obj.info[k] # None
             THEN StoredPassword(S(obj.info[k]), setting)
        ELSE obj.info[k]]

\* obj.create(): the record appears at uid=<username>,<position>
CanCreate(d, obj) == ~d.user.present /\ obj.info["username"] # None
create(d, obj, setting) ==
    [d EXCEPT !.user =
        [present |-> TRUE,
         dn |-> UserDn(S(obj.info["username"]), obj.position),
         info |-> [Committed(obj, BlankInfo, setting)
                      EXCEPT !["uidNumber"] = Str("2001")]]]

\* obj.modify(): the changed properties are written to the record at obj.dn
CanModify(d, obj) == d.user.present /\ d.user.dn = obj.dn
modify(d, obj, setting) ==
    [d EXCEPT !.user.info = Committed(obj, d.user.info, setting)]

\* obj.remove()
remove(d, obj) == [d EXCEPT !.user = NoUser]

\* umc_module_for_edit('groups/group', dn) and grp.modify(), which adds the
\* members the object gained since it was opened and drops those it lost
NoGrp == [g |-> "", oldusers |-> <<>>, users |-> <<>>]
open_group(d, g) == [g |-> g, oldusers |-> d.groups[g], users |-> d.groups[g]]
InSeq(x, q) == \E i \in 1..Len(q) : q[i] = x
group_modify(d, grp) ==
    LET gained == SelectSeq(grp.users,
                     LAMBDA m : ~InSeq(m, grp.oldusers) /\ ~InSeq(m, d.groups[grp.g]))
        dropped(m) == InSeq(m, grp.oldusers) /\ ~InSeq(m, grp.users)
    IN [d EXCEPT !.groups[grp.g] = SelectSeq(@, LAMBDA m : ~dropped(m)) \o gained]

(***************************************************************************)
(* Inputs: module.params, check mode and the directory a pass starts on.   *)
(***************************************************************************)
\* (position, ou, subpath) as given by the caller
Placements ==
    { [position |-> "", ou |-> "", subpath |-> "cn=users"],
      [position |-> "", ou |-> "school", subpath |-> "cn=users"],
      [position |-> "cn=users,dc=ex", ou |-> "school", subpath |-> "cn=users"] }

\* the optional attributes of a task, each left at its default or given
AttrProfiles ==
    LET base == [displayName |-> None, unixhome |-> None, description |-> None,
                 email |-> List(<<"">>), password |-> Str("pw1")]
    IN { base,
         [base EXCEPT !.displayName = Str("Dr Foo")],
         [base EXCEPT !.unixhome = Str("/srv/foo")],
         [base EXCEPT !.description = Str("d1")],
         [base EXCEPT !.email = List(<<"foo@ex", "f@ex">>)],
         [base EXCEPT !.password = Str("pw2")] }

\* the groups option: empty, both groups in either order with a duplicate,
\* an unknown name alone and beside a known one
GroupLists == { <<>>, <<"A", "B">>, <<"B", "A", "B">>, <<"N">>, <<"N", "B">> }

MkParams(state, place, prof, groups) ==
    [k \in ParamKeys |->
        CASE k = "username" -> Str("foo")
          [] k = "firstname" -> Str("Foo")
          [] k = "lastname" -> Str("Bar")
          [] k = "displayName" -> prof.displayName
          [] k = "unixhome" -> prof.unixhome
          [] k = "description" -> prof.description
          [] k = "email" -> prof.email
          [] k = "password" -> prof.password
          [] k = "groups" -> List(groups)
          [] k = "position" -> Str(place.position)
          [] k = "ou" -> Str(place.ou)
          [] k = "subpath" -> Str(place.subpath)
          [] k = "state" -> Str(state)]

AllParams ==
    { MkParams(st, pl, pr, gr) : st \in {"present", "absent"}, pl \in Placements,
                                 pr \in AttrProfiles, gr \in GroupLists }

Dn1 == UserDn("foo", Container("", "", "cn=users"))
Dn2 == UserDn("foo", Container("", "school", "cn=users"))
OtherDn == UserDn("bob", Container("", "", "cn=users"))

\* user records a pass can find: none, a record as a pass leaves it in either
\* container, and records whose stored password is unset, has no scheme
\* delimiter, or is locked
InitUsers ==
    LET info == [k \in UserKeys |->
                    CASE k = "username" -> Str("foo")
                      [] k = "firstname" -> Str("Foo")
                      [] k = "lastname" -> Str("Bar")
                      [] k = "displayName" -> Str("Foo Bar")
                      [] k = "unixhome" -> Str("/home/foo")
                      [] k = "description" -> None
                      [] k = "e-mail" -> List(<<"">>)
                      [] k = "password" -> StoredPassword("pw1", "$6$s1$")
                      [] k = "groups" -> List(<<>>)
                      [] k = "uidNumber" -> Str("2001")]
        at(dn, i) == [present |-> TRUE, dn |-> dn, info |-> i]
    IN { NoUser,
         at(Dn1, info),
         at(Dn2, info),
         at(Dn1, [info EXCEPT !["password"] = None,
                              !["description"] = Str("old"),
                              !["displayName"] = Str("Old Name"),
                              !["e-mail"] = List(<<"o@ex">>)]),
         at(Dn1, [info EXCEPT !["password"] = StrOf(<<"garbage">>)]),
         at(Dn1, [info EXCEPT !["password"] =
                                  StrOf(<<"{crypt", "}", "!", "$6$s1$", "x">>)]) }

InitGroups ==
    { [g \in ExistingGroups |-> <<>>],
      [g \in ExistingGroups |-> IF g = "A" THEN <<Dn1>> ELSE <<>>],
      [g \in ExistingGroups |-> IF g = "A" THEN <<OtherDn>> ELSE <<OtherDn, Dn1>>],
      [g \in ExistingGroups |-> IF g = "A" THEN <<Dn2>> ELSE <<>>] }

InitDirs == { [user |-> u, groups |-> g] : u \in InitUsers, g \in InitGroups }

(***************************************************************************)
(* Locals of one run of main().                                            *)
(***************************************************************************)
NewLoc(d, params, check) ==
    [pc |-> "search", params0 |-> params, params |-> params, check_mode |-> check,
     container |-> "", user_dn |-> "", exists |-> FALSE, obj |-> NoObj,
     changed |-> FALSE, diff_bound |-> FALSE, diff |-> {},
     group_dns |-> <<>>, grp |-> NoGrp,
     ops |-> <<>>, faulted |-> FALSE, outcome |-> "running", msg |-> "",
     startDir |-> d]

IdleLoc(d) ==
    [NewLoc(d, MkParams("present", CHOOSE pl \in Placements : pl.ou = "" /\ pl.position = "",
                        CHOOSE pr \in AttrProfiles : TRUE, <<>>), FALSE)
        EXCEPT !.pc = "idle", !.outcome = "none"]

\* what the caller sees of a finished pass
Summary(l) ==
    [valid |-> TRUE, check_mode |-> l.check_mode, startDir |-> l.startDir,
     faulted |-> l.faulted, outcome |-> l.outcome,
     msg |-> l.msg, changed |-> l.changed, diff |-> l.diff, ops |-> l.ops]

NoLast(d) == [Summary(IdleLoc(d)) EXCEPT !.valid = FALSE]

Init ==
    /\ dir \in InitDirs
    /\ loc = [p \in Procs |-> IdleLoc(dir)]
    /\ last = NoLast(dir)
    /\ passes = 0

\* module.fail_json(msg=...): the pass ends failed
Fail(l, msg, fault) ==
    [l EXCEPT !.pc = "done", !.outcome = "failed", !.msg = msg, !.faulted = fault]

\* an exception nothing catches: the pass ends with a traceback
Crash(l, fault) ==
    [l EXCEPT !.pc = "done", !.outcome = "crashed", !.faulted = fault]

(***************************************************************************)
(* Staging, main() lines 452-475.                                          *)
(***************************************************************************)
\* the home directory default left out
WithDefaults_nohome(params) ==
    IF params["displayName"] = None
    THEN [params EXCEPT !["displayName"] =
              Str(S(params["firstname"]) \o " " \o S(params["lastname"]))]
    ELSE params

\* the defaults assigned over the values given
WithDefaults_always(params) ==
    [params EXCEPT !["displayName"] =
                       Str(S(params["firstname"]) \o " " \o S(params["lastname"])),
                   !["unixhome"] = Str("/home/" \o S(params["username"]))]

\* lines 452-460: the defaults are assigned into module.params
WithDefaults(params) ==
    LET p1 == IF params["displayName"] = None
              THEN [params EXCEPT !["displayName"] =
                        Str(S(params["firstname"]) \o " " \o S(params["lastname"]))]
              ELSE params
    IN IF p1["unixhome"] = None
       THEN [p1 EXCEPT !["unixhome"] = Str("/home/" \o S(p1["username"]))]
       ELSE p1

\* the loop without the test for None
StageAttrs_writesNone(info, params) ==
    [k \in UserKeys |->
        IF k = "e-mail" THEN params["email"]
        ELSE IF k # "password" /\ k # "groups" /\ k \in DOMAIN params
        THEN params[k]
        ELSE info[k]]

\* lines 461-468: the loop over obj.keys(), then the e-mail list
StageAttrs(info, params) ==
    [k \in UserKeys |->
        IF k = "e-mail" THEN params["email"]
        ELSE IF k # "password" /\ k # "groups" /\ k \in DOMAIN params
                /\ params[k] # None
        THEN params[k]
        ELSE info[k]]

\* line 473 raises IndexError when the stored value has no '}'
PasswordUnparseable(info) ==
    info["password"] # None /\ Len(split(info["password"].val, "}", 2)) < 2

\* line 473: obj['password'].split('}', 2)[1]
OldPassword(info) == StrOf(split(info["password"].val, "}", 2)[2])

\* the hash compared with the stored value, scheme prefix included
PasswordNeedsUpdate_unsplit(info, password) ==
    IF info["password"] = None
    THEN TRUE
    ELSE crypt(S(password), OldPassword(info)) # info["password"]

\* lines 470-475: whether obj['password'] is assigned the plaintext
PasswordNeedsUpdate(info, password) ==
    IF info["password"] = None
    THEN TRUE
    ELSE crypt(S(password), OldPassword(info)) # OldPassword(info)

\* lines 469-475
StagePassword(info, password) ==
    IF PasswordNeedsUpdate(info, password)
    THEN [info EXCEPT !["password"] = password]
    ELSE info

(***************************************************************************)
(* The steps of main().                                                    *)
(***************************************************************************)
\* a caller runs main() with its params and check mode
StartPass(p) ==
    /\ loc[p].pc = "idle"
    /\ passes < MaxPasses
    /\ \E params \in AllParams, check \in BOOLEAN :
          loc' = [loc EXCEPT ![p] = NewLoc(dir, params, check)]
    /\ passes' = passes + 1
    /\ UNCHANGED <<dir, last>>

\* the caller runs the same task again, in either mode
Rerun(p) ==
    /\ loc[p].pc = "done"
    /\ ~loc[p].faulted
    /\ passes < MaxPasses
    /\ \E check \in BOOLEAN :
          loc' = [loc EXCEPT ![p] = NewLoc(dir, loc[p].params0, check)]
    /\ last' = Summary(loc[p])
    /\ passes' = passes + 1
    /\ UNCHANGED dir

\* the probe that takes every identity for new
ProbeExists_never(users) == FALSE

\* line 443: exists = bool(len(users))
ProbeExists(users) == Len(users) # 0

\* lines 429-445 and 510: the existence probe, the container and the branch
Search(p) ==
    LET l == loc[p]
        username == S(l.params["username"])
        users == ldap_search_user(dir, username)
        container == Container(S(l.params["position"]), S(l.params["ou"]),
                               S(l.params["subpath"]))
        exists == ProbeExists(users)
        state == S(l.params["state"])
    IN /\ l.pc = "search"
       /\ \E fault \in BOOLEAN :
             loc' = [loc EXCEPT ![p] =
                 IF fault THEN Crash(l, TRUE)
                 ELSE [l EXCEPT !.container = container,
                                !.user_dn = UserDn(username, container),
                                !.exists = exists,
                                !.pc = IF state = "present" THEN "open"
                                       ELSE IF exists THEN "remove"
                                       ELSE "exit"]]
       /\ UNCHANGED <<dir, last, passes>>

\* the exception swallowed and the pass carried on to the groups
FailUser_continue(l, fault) ==
    [l EXCEPT !.faulted = fault, !.pc = "groups"]

FailUser(l, fault) ==
    Fail(l, "Creating/editing user " \o S(l.params["username"]) \o " in "
            \o l.container \o " failed", fault)

\* lines 446-475: open the object, resolve the defaults, stage the attributes
OpenStage(p) ==
    LET l == loc[p]
        opened == IF ~l.exists THEN umc_module_for_add(l.container)
                  ELSE umc_module_for_edit(dir, l.user_dn)
        params == WithDefaults(l.params)
        staged == StageAttrs(opened.info, params)
    IN /\ l.pc = "open"
       /\ \E fault \in {"none", "open", "stage"} :
             loc' = [loc EXCEPT ![p] =
                 IF fault = "open" THEN FailUser(l, TRUE)
                 ELSE IF l.exists /\ ~CanOpenUser(dir, l.user_dn)
                 THEN FailUser(l, FALSE)
                 ELSE IF fault = "stage"
                 THEN FailUser([l EXCEPT !.obj = opened, !.params = params], TRUE)
                 ELSE IF PasswordUnparseable(staged)
                 THEN FailUser([l EXCEPT !.params = params,
                                         !.obj = [opened EXCEPT !.info = staged]],
                               FALSE)
                 ELSE [l EXCEPT !.params = params,
                                !.obj = [opened EXCEPT !.info =
                                            StagePassword(staged, params["password"])],
                                !.pc = "diff"]]
       /\ UNCHANGED <<dir, last, passes>>

\* changed set without asking hasChanged
ChangedAfterDiff_always(l) == TRUE

\* lines 478-483: the changed flag after staging
ChangedAfterDiff(l) ==
    IF l.exists
    THEN \E k \in UserKeys : hasChanged(l.obj, k)
    ELSE TRUE

\* lines 477-483: the diff and the changed flag
Diff(p) ==
    LET l == loc[p]
    IN /\ l.pc = "diff"
       /\ \E fault \in BOOLEAN :
             loc' = [loc EXCEPT ![p] =
                 IF fault THEN FailUser(l, TRUE)
                 ELSE [l EXCEPT !.diff = ObjDiff(l.obj),
                                !.diff_bound = TRUE,
                                !.changed = ChangedAfterDiff(l),
                                !.pc = "commit"]]
       /\ UNCHANGED <<dir, last, passes>>

\* the commit not guarded by check mode
CommitChoice_nocheck(l) ==
    IF ~l.exists THEN "create"
    ELSE IF l.changed THEN "modify"
    ELSE "none"

\* modify() issued for every existing record
CommitChoice_nogate(l) ==
    IF ~l.check_mode
    THEN IF ~l.exists THEN "create" ELSE "modify"
    ELSE "none"

\* lines 484-488: which commit the pass issues
CommitChoice(l) ==
    IF ~l.check_mode
    THEN IF ~l.exists THEN "create"
         ELSE IF l.changed THEN "modify"
         ELSE "none"
    ELSE "none"

\* lines 484-488: create or modify, unless in check mode
Commit(p) ==
    LET l == loc[p]
        done == [l EXCEPT !.pc = "groups"]
        choice == CommitChoice(l)
    IN /\ l.pc = "commit"
       /\ \E fault \in BOOLEAN, setting \in Settings :
             IF choice = "create"
             THEN IF fault \/ ~CanCreate(dir, l.obj)
                  THEN /\ loc' = [loc EXCEPT ![p] = FailUser(l, fault)]
                       /\ dir' = dir
                  ELSE /\ loc' = [loc EXCEPT ![p] =
                                    [done EXCEPT !.ops = Append(@, <<"create", l.user_dn>>)]]
                       /\ dir' = create(dir, l.obj, setting)
             ELSE IF choice = "modify"
             THEN IF fault \/ ~CanModify(dir, l.obj)
                  THEN /\ loc' = [loc EXCEPT ![p] = FailUser(l, fault)]
                       /\ dir' = dir
                  ELSE /\ loc' = [loc EXCEPT ![p] =
                                    [done EXCEPT !.ops = Append(@, <<"modify", l.user_dn>>)]]
                       /\ dir' = modify(dir, l.obj, setting)
             ELSE /\ loc' = [loc EXCEPT ![p] = done]
                  /\ dir' = dir
       /\ UNCHANGED <<last, passes>>

\* the exception swallowed and the loop carried on with the next group
FailGroups_continue(l, fault) ==
    [l EXCEPT !.faulted = fault,
              !.group_dns = IF @ = <<>> THEN @ ELSE Tail(@),
              !.pc = IF l.group_dns = <<>> \/ Tail(l.group_dns) = <<>>
                     THEN "exit" ELSE "group"]

FailGroups(l, fault) ==
    Fail(l, "Adding groups to user " \o S(l.params["username"]) \o " failed", fault)

\* lines 494-497: resolve the desired group names
GroupSearch(p) ==
    LET l == loc[p]
        groups == l.params["groups"].val
        group_dns == ldap_search_groups(groups)
    IN /\ l.pc = "groups"
       /\ \E fault \in BOOLEAN :
             loc' = [loc EXCEPT ![p] =
                 IF groups = <<>> THEN [l EXCEPT !.pc = "exit"]
                 ELSE IF fault THEN FailGroups(l, TRUE)
                 ELSE [l EXCEPT !.group_dns = group_dns,
                                !.pc = IF group_dns = <<>> THEN "exit" ELSE "group"]]
       /\ UNCHANGED <<dir, last, passes>>

\* changed set only beside grp.modify()
GroupRound_changedOnWrite(l, grp) ==
    IF ~InSeq(l.user_dn, grp.users)
    THEN [grp |-> [grp EXCEPT !.users = Append(@, l.user_dn)],
          write |-> ~l.check_mode,
          changed |-> l.changed \/ ~l.check_mode]
    ELSE [grp |-> grp, write |-> FALSE, changed |-> l.changed]

\* the DN appended without the membership test
GroupRound_noMembershipTest(l, grp) ==
    [grp |-> [grp EXCEPT !.users = Append(@, l.user_dn)],
     write |-> ~l.check_mode,
     changed |-> TRUE]

\* the member list assigned instead of appended to
GroupRound_assign(l, grp) ==
    IF ~InSeq(l.user_dn, grp.users)
    THEN [grp |-> [grp EXCEPT !.users = <<l.user_dn>>],
          write |-> ~l.check_mode,
          changed |-> TRUE]
    ELSE [grp |-> grp, write |-> FALSE, changed |-> l.changed]

\* lines 500-504: what one round does with the opened group: the member
\* list it holds afterwards, whether it calls grp.modify(), and changed
GroupRound(l, grp) ==
    IF ~InSeq(l.user_dn, grp.users)
    THEN [grp |-> [grp EXCEPT !.users = Append(@, l.user_dn)],
          write |-> ~l.check_mode,
          changed |-> TRUE]
    ELSE [grp |-> grp, write |-> FALSE, changed |-> l.changed]

\* lines 498-504: one round of the loop over the resolved groups
GroupStep(p) ==
    LET l == loc[p]
        g == Head(l.group_dns)
        round == GroupRound(l, open_group(dir, g))
        next == [l EXCEPT !.group_dns = Tail(@),
                          !.grp = round.grp,
                          !.changed = round.changed,
                          !.pc = IF Tail(l.group_dns) = <<>> THEN "exit" ELSE "group"]
    IN /\ l.pc = "group"
       /\ \E fault \in {"none", "open", "modify"} :
             IF fault = "open"
             THEN /\ loc' = [loc EXCEPT ![p] = FailGroups(l, TRUE)]
                  /\ dir' = dir
             ELSE IF ~round.write
             THEN /\ loc' = [loc EXCEPT ![p] = next]
                  /\ dir' = dir
             ELSE IF fault = "modify"
             THEN /\ loc' = [loc EXCEPT ![p] =
                                FailGroups([l EXCEPT !.grp = round.grp], TRUE)]
                  /\ dir' = dir
             ELSE /\ loc' = [loc EXCEPT ![p] =
                                [next EXCEPT !.ops = Append(@, <<"group", GroupDn(g)>>)]]
                  /\ dir' = group_modify(dir, round.grp)
       /\ UNCHANGED <<last, passes>>

\* line 513: whether the pass calls obj.remove()
RemoveGate(l) == ~l.check_mode

\* lines 510-519: remove the record, unless in check mode
Remove(p) ==
    LET l == loc[p]
        failed(fault) == Fail(l, "Removing user " \o S(l.params["username"])
                                    \o " failed", fault)
        opened == umc_module_for_edit(dir, l.user_dn)
        next == [l EXCEPT !.obj = opened, !.changed = TRUE, !.pc = "exit"]
    IN /\ l.pc = "remove"
       /\ \E fault \in {"none", "open", "remove"} :
             IF fault = "open" \/ ~CanOpenUser(dir, l.user_dn)
             THEN /\ loc' = [loc EXCEPT ![p] = failed(fault = "open")]
                  /\ dir' = dir
             ELSE IF ~RemoveGate(l)
             THEN /\ loc' = [loc EXCEPT ![p] = next]
                  /\ dir' = dir
             ELSE IF fault = "remove"
             THEN /\ loc' = [loc EXCEPT ![p] = failed(TRUE)]
                  /\ dir' = dir
             ELSE /\ loc' = [loc EXCEPT ![p] =
                                [next EXCEPT !.ops = Append(@, <<"remove", l.user_dn>>)]]
                  /\ dir' = remove(dir, opened)
       /\ UNCHANGED <<last, passes>>

\* lines 521-526: exit_json reads the local diff, which only line 477 binds
Exit(p) ==
    LET l == loc[p]
    IN /\ l.pc = "exit"
       /\ loc' = [loc EXCEPT ![p] =
                     IF ~l.diff_bound THEN Crash(l, FALSE)
                     ELSE [l EXCEPT !.pc = "done", !.outcome = "ok"]]
       /\ UNCHANGED <<dir, last, passes>>

Next ==
    \E p \in SeqProcs :
        \/ StartPass(p)
        \/ Rerun(p)
        \/ Search(p)
        \/ OpenStage(p)
        \/ Diff(p)
        \/ Commit(p)
        \/ GroupSearch(p)
        \/ GroupStep(p)
        \/ Remove(p)
        \/ Exit(p)

Spec == Init /\ [][Next]_vars

(***************************************************************************)
(* Two runs of main() for the same identity at once, interleaved at their  *)
(* directory calls; nothing in main() keeps them apart.                    *)
(***************************************************************************)
\* the tasks of the two runs: the plain task, one that names a displayName
\* and groups, and the removal
RaceParams ==
    LET place == CHOOSE pl \in Placements : pl.ou = "" /\ pl.position = ""
        base == CHOOSE pr \in AttrProfiles :
                    pr.displayName = None /\ pr.unixhome = None
                    /\ pr.description = None /\ pr.email = List(<<"">>)
                    /\ pr.password = Str("pw1")
    IN { MkParams("present", place, base, <<>>),
         MkParams("present", place, [base EXCEPT !.displayName = Str("Dr Foo")],
                  <<"A", "B">>),
         MkParams("absent", place, base, <<>>) }

\* the directories they meet: no record, or a record in the default container
RaceDirs ==
    { d \in InitDirs :
        /\ \A g \in ExistingGroups : d.groups[g] = <<>>
        /\ \/ ~d.user.present
           \/ d.user.dn = Dn1 /\ ~PasswordUnparseable(d.user.info) }

InitRace ==
    /\ dir \in RaceDirs
    /\ loc = [p \in Procs |-> IdleLoc(dir)]
    /\ last = NoLast(dir)
    /\ passes = 0

\* a caller runs main() while another run may be under way
StartRace(p) ==
    /\ loc[p].pc = "idle"
    /\ \E params \in RaceParams, check \in BOOLEAN :
          loc' = [loc EXCEPT ![p] = NewLoc(dir, params, check)]
    /\ UNCHANGED <<dir, last, passes>>

NextRace ==
    \E p \in Procs :
        \/ StartRace(p)
        \/ Search(p)
        \/ OpenStage(p)
        \/ Diff(p)
        \/ Commit(p)
        \/ GroupSearch(p)
        \/ GroupStep(p)
        \/ Remove(p)
        \/ Exit(p)

SpecRace == InitRace /\ [][NextRace]_vars

(***************************************************************************)
(* Properties.                                                             *)
(***************************************************************************)
IsPresent(l) == S(l.params0["state"]) = "present"
IsAbsent(l) == S(l.params0["state"]) = "absent"
Running(l) == l.pc # "idle"
Finished(l) == l.pc = "done"
Ok(l) == l.pc = "done" /\ l.outcome = "ok"
OpsOf(l, kind) == SelectSeq(l.ops, LAMBDA o : o[1] = kind)
\* the current pass reruns the task of the pass before it
IsRerun == last.valid

\* C1: after a non-dry-run present pass that ended without error, a second
\* pass with the same params reports changed = false and issues no create,
\* modify, remove or group write.
C1_Idempotent ==
    \A p \in Procs :
        (IsRerun /\ ~last.check_mode /\ last.outcome = "ok"
            /\ Running(loc[p]) /\ IsPresent(loc[p]))
        => /\ loc[p].ops = <<>>
           /\ dir = loc[p].startDir
           /\ ~loc[p].changed
           /\ (Finished(loc[p]) /\ ~loc[p].faulted => loc[p].outcome = "ok")

\* a second pass, real, has ended after a first pass that created the user
\* and wrote a group
C1_Witness ==
    \E p \in Procs :
        /\ IsRerun /\ ~last.check_mode /\ last.outcome = "ok" /\ last.changed
        /\ Len(last.ops) >= 2
        /\ Ok(loc[p]) /\ IsPresent(loc[p]) /\ ~loc[p].check_mode

\* C2: a pass in check mode leaves the stored user record and every group
\* as they were and issues no create, modify or remove.
C2_DryRunNoWrite ==
    \A p \in Procs :
        (Running(loc[p]) /\ loc[p].check_mode)
        => dir = loc[p].startDir /\ loc[p].ops = <<>>

\* a check-mode pass that would create the user and add it to a group has ended
C2_Witness ==
    \E p \in Procs :
        /\ Ok(loc[p]) /\ loc[p].check_mode /\ loc[p].changed
        /\ ~loc[p].exists
        /\ loc[p].grp.users # loc[p].grp.oldusers

\* a check-mode pass that would remove the user has passed line 515
C2_WitnessAbsent ==
    \E p \in Procs :
        /\ loc[p].pc = "exit" /\ loc[p].check_mode /\ IsAbsent(loc[p])
        /\ loc[p].changed /\ dir.user.present

\* C3: a check-mode pass and a real pass of the same task started on the same
\* directory and met by no directory fault end alike, and when they return
\* they return the same changed flag and the same diff.
C3_DryRunReportsSame ==
    \A p \in Procs :
        (IsRerun /\ last.check_mode # loc[p].check_mode
            /\ last.startDir = loc[p].startDir
            /\ Finished(loc[p]) /\ ~loc[p].faulted)
        => /\ loc[p].outcome = last.outcome
           /\ loc[p].msg = last.msg
           /\ (loc[p].outcome = "ok"
                 => loc[p].changed = last.changed /\ loc[p].diff = last.diff)

\* a real pass that wrote the user and a group has ended after a check-mode
\* pass of the same task on the same directory
C3_Witness ==
    \E p \in Procs :
        /\ IsRerun /\ last.check_mode /\ ~loc[p].check_mode
        /\ last.startDir = loc[p].startDir
        /\ Ok(loc[p]) /\ loc[p].changed /\ loc[p].diff # {}
        /\ Len(loc[p].ops) >= 2

\* C4: a real pass with state absent whose probe found no record ends
\* normally with changed = false, without error and without a write.
C4_AbsentOnAbsentNoop ==
    \A p \in Procs :
        (Finished(loc[p]) /\ ~loc[p].faulted /\ IsAbsent(loc[p])
            /\ ~loc[p].check_mode /\ ~loc[p].exists)
        => /\ loc[p].outcome = "ok"
           /\ ~loc[p].changed
           /\ loc[p].ops = <<>>
           /\ dir = loc[p].startDir

\* C5: a pass with state absent on an identity whose record exists removes
\* the record (nothing in check mode), ends normally reporting changed = true,
\* and stages no attribute and touches no group.
C5_DeletePath ==
    \A p \in Procs :
        (Finished(loc[p]) /\ ~loc[p].faulted /\ IsAbsent(loc[p])
            /\ loc[p].exists /\ CanOpenUser(loc[p].startDir, loc[p].user_dn))
        => /\ loc[p].outcome = "ok"
           /\ loc[p].changed
           /\ dir.user.present = loc[p].check_mode
           /\ dir.groups = loc[p].startDir.groups
           /\ loc[p].obj.info = loc[p].obj.oldinfo

\* the user commit of the pass has been decided and has not failed
PastCommit(l) ==
    \/ l.pc \in {"groups", "group", "exit"}
    \/ l.pc = "done" /\ l.outcome = "ok"
    \/ l.pc = "done" /\ l.outcome = "failed" /\ l.msg = FailGroups(l, FALSE).msg

\* C6: on the present branch with check mode off, past the commit step a new
\* record has had exactly one create(), an existing record has had one
\* modify() iff some attribute hasChanged after staging and none otherwise;
\* an existing record never has a create() and a new one never a modify().
C6_CommitGating ==
    \A p \in Procs :
        LET l == loc[p]
            creates == Len(OpsOf(l, "create"))
            modifies == Len(OpsOf(l, "modify"))
        IN (Running(l) /\ IsPresent(l) /\ ~l.check_mode)
           => /\ (l.exists => creates = 0)
              /\ (~l.exists => modifies = 0)
              /\ (PastCommit(l) /\ ~l.exists => creates = 1)
              /\ (PastCommit(l) /\ l.exists =>
                    modifies = IF \E k \in UserKeys : hasChanged(l.obj, k)
                               THEN 1 ELSE 0)

\* a real pass on an existing record is past its commit with nothing staged
\* different from what was loaded, and another has issued its modify()
C6_Witness ==
    \E p \in Procs :
        /\ IsPresent(loc[p]) /\ ~loc[p].check_mode /\ loc[p].exists
        /\ PastCommit(loc[p])
        /\ loc[p].obj.info = loc[p].obj.oldinfo
        /\ loc[p].ops = <<>>

C6_WitnessModify ==
    \E p \in Procs :
        /\ IsPresent(loc[p]) /\ ~loc[p].check_mode /\ loc[p].exists
        /\ PastCommit(loc[p])
        /\ OpsOf(loc[p], "modify") # <<>>

\* what a pass did, read off the directory it started on
WasCreated(l) == IsPresent(l) /\ ~l.startDir.user.present
AttrChanged(l) ==
    IsPresent(l) /\ l.startDir.user.present /\ l.obj.info # l.obj.oldinfo
DesiredGroups(l) ==
    {g \in ExistingGroups : InSeq(g, l.params0["groups"].val)}
MissingGroups(l) ==
    {g \in DesiredGroups(l) : ~InSeq(l.user_dn, l.startDir.groups[g])}
GroupGained(l) == IsPresent(l) /\ MissingGroups(l) # {}
WasDeleted(l) == IsAbsent(l) /\ l.startDir.user.present

\* C7: when a pass is about to return without error, and when it has, its
\* changed flag is the OR of: the record was or would be created, an
\* attribute of the existing record changed, a group gained the user, the
\* record was or would be deleted.
C7_ChangedIsOr ==
    \A p \in Procs :
        (loc[p].pc = "exit" \/ Ok(loc[p]))
        => loc[p].changed = (WasCreated(loc[p]) \/ AttrChanged(loc[p])
                                \/ GroupGained(loc[p]) \/ WasDeleted(loc[p]))

\* a pass on an existing record with nothing to change has returned
\* changed = false, and one changed only by a group has returned changed = true
C7_Witness ==
    \E p \in Procs :
        /\ Ok(loc[p]) /\ ~loc[p].changed /\ loc[p].exists
        /\ DesiredGroups(loc[p]) # {}

C7_WitnessGroupOnly ==
    \E p \in Procs :
        /\ Ok(loc[p]) /\ loc[p].changed /\ loc[p].exists
        /\ ~AttrChanged(loc[p]) /\ GroupGained(loc[p])

\* the group writes a pass issued, as a set of group DNs
GroupWrites(l) == {OpsOf(l, "group")[i][2] : i \in 1..Len(OpsOf(l, "group"))}

\* C8: a real present pass that ends without error has written exactly the
\* resolved desired groups that did not list the user's DN, each once, adding
\* the DN once; the groups that listed it are unwritten and unchanged; and
\* the membership step sets changed iff some group was missing the DN.
C8_GroupConvergence ==
    \A p \in Procs :
        LET l == loc[p]
        IN (Ok(l) /\ IsPresent(l))
           => /\ GroupWrites(l) = IF l.check_mode THEN {}
                                  ELSE {GroupDn(g) : g \in MissingGroups(l)}
              /\ Len(OpsOf(l, "group")) = Cardinality(GroupWrites(l))
              /\ \A g \in ExistingGroups :
                    dir.groups[g] =
                        IF g \in MissingGroups(l) /\ ~l.check_mode
                        THEN Append(l.startDir.groups[g], l.user_dn)
                        ELSE l.startDir.groups[g]
              /\ (~WasCreated(l) /\ ~AttrChanged(l)
                    => l.changed = (MissingGroups(l) # {}))

\* desired {A, B}, the user a member of A only: one write, on B
C8_Witness ==
    \E p \in Procs :
        /\ Ok(loc[p]) /\ IsPresent(loc[p]) /\ ~loc[p].check_mode
        /\ DesiredGroups(loc[p]) = {"A", "B"}
        /\ InSeq(loc[p].user_dn, loc[p].startDir.groups["A"])
        /\ loc[p].ops = << <<"group", GroupDn("B")>> >>
        /\ loc[p].changed

\* the desired group names that match no group
Unresolvable(l) ==
    {l.params0["groups"].val[i] : i \in 1..Len(l.params0["groups"].val)}
        \ ExistingGroups

\* C9: with every desired name unresolvable the membership step writes no
\* group, leaves changed as the user phase set it and does not fail; with a
\* mix, the resolvable names are handled as if the others were not given.
C9_UnresolvableTolerated ==
    \A p \in Procs :
        LET l == loc[p]
        IN (Running(l) /\ IsPresent(l) /\ Unresolvable(l) # {})
           => /\ (DesiredGroups(l) = {} => OpsOf(l, "group") = <<>>
                                            /\ dir.groups = l.startDir.groups)
              /\ (Ok(l) /\ DesiredGroups(l) = {}
                    => l.changed = (WasCreated(l) \/ AttrChanged(l)))
              /\ (Finished(l) /\ PastCommit(l) /\ ~l.faulted => l.outcome = "ok")
              /\ (Ok(l) /\ ~l.check_mode
                    => \A g \in DesiredGroups(l) : InSeq(l.user_dn, dir.groups[g]))
              /\ (Ok(l) => GroupWrites(l) \subseteq {GroupDn(g) : g \in DesiredGroups(l)})

\* a real pass whose only desired group does not exist has returned
\* changed = false, and one given an unknown and a known name wrote the known
C9_Witness ==
    \E p \in Procs :
        /\ Ok(loc[p]) /\ ~loc[p].check_mode /\ ~loc[p].changed
        /\ Unresolvable(loc[p]) # {} /\ DesiredGroups(loc[p]) = {}

C9_WitnessMixed ==
    \E p \in Procs :
        /\ Ok(loc[p]) /\ ~loc[p].check_mode
        /\ Unresolvable(loc[p]) # {}
        /\ loc[p].ops = << <<"group", GroupDn("B")>> >>

\* the staging of lines 452-475 has run to its end
Staged(l) ==
    \/ l.pc \in {"diff", "commit", "groups", "group", "exit"}
    \/ l.pc = "done" /\ l.diff_bound
\* the stored password is the hash of word under the stored value's own setting
MatchesStored(word, stored) ==
    \E setting \in Settings : stored = StoredPassword(word, setting)

\* C10: once staging is through, the password was written to the object iff
\* the stored password is unset or is not the hash of the supplied plaintext
\* under the stored value's own scheme and salt.
C10_SecretStaging ==
    \A p \in Procs :
        LET l == loc[p]
            stored == l.obj.oldinfo["password"]
            plain == l.params0["password"]
            written == l.obj.info["password"] = plain
        IN (IsPresent(l) /\ Staged(l))
           => /\ written = (stored = None \/ ~MatchesStored(S(plain), stored))
              /\ (~written => l.obj.info["password"] = stored)

\* an existing record whose stored hash matches was staged without a password
\* write, and one with no stored password had it written
C10_Witness ==
    \E p \in Procs :
        /\ IsPresent(loc[p]) /\ Staged(loc[p]) /\ loc[p].exists
        /\ MatchesStored(S(loc[p].params0["password"]), loc[p].obj.oldinfo["password"])
        /\ ~hasChanged(loc[p].obj, "password")

C10_WitnessUnset ==
    \E p \in Procs :
        /\ IsPresent(loc[p]) /\ Staged(loc[p]) /\ loc[p].exists
        /\ loc[p].obj.oldinfo["password"] = None
        /\ loc[p].obj.info["password"] = loc[p].params0["password"]


\* C11: every pass that comes to return without error has a diff to return,
\* also when it committed nothing (check mode, nothing to change, state
\* absent); and on the present branch the diff is taken from the object as
\* staged, before the check-mode test and before any create() or modify().
C11_DiffAlwaysReturned ==
    \A p \in Procs :
        LET l == loc[p]
        IN /\ (l.pc = "exit" => l.diff_bound)
           /\ (Finished(l) /\ ~l.faulted /\ l.outcome # "failed"
                 => l.outcome = "ok" /\ l.diff_bound)
           /\ (IsPresent(l) /\ l.pc \in {"commit", "groups", "group", "exit"}
                 => l.diff_bound /\ l.diff = ObjDiff(l.obj))
           /\ (IsPresent(l) /\ l.ops # <<>> => l.diff_bound)

\* the part of C11 the present branch keeps: the diff is bound from the
\* staged object before the commit step, in check mode too
C11_PresentDiffBeforeCommit ==
    \A p \in Procs :
        (IsPresent(loc[p]) /\ loc[p].pc = "commit")
        => /\ loc[p].diff_bound
           /\ loc[p].diff = ObjDiff(loc[p].obj)
           /\ loc[p].ops = <<>>
           /\ dir = loc[p].startDir


\* the container a task names: its position, or subpath and ou under the base
ExpectedContainer(params) ==
    IF S(params["position"]) # "" THEN S(params["position"])
    ELSE IF S(params["ou"]) = "school" THEN "cn=users,ou=school,dc=ex"
    ELSE "cn=users,dc=ex"

\* C12: a real present pass on a directory without the record that returns
\* has created the record in the position given, or else in the default
\* container, with displayName "<firstname> <lastname>" and unixhome
\* "/home/<username>" unless the task gave them, and reports changed = true.
C12_CreateWithDefaults ==
    \A p \in Procs :
        LET l == loc[p]
            given(k, default) == IF l.params0[k] = None THEN Str(default)
                                 ELSE l.params0[k]
        IN (Ok(l) /\ IsPresent(l) /\ ~l.check_mode /\ ~l.startDir.user.present)
           => /\ dir.user.present
              /\ dir.user.dn = "uid=foo," \o ExpectedContainer(l.params0)
              /\ dir.user.info["displayName"] = given("displayName", "Foo Bar")
              /\ dir.user.info["unixhome"] = given("unixhome", "/home/foo")
              /\ dir.user.info["firstname"] = Str("Foo")
              /\ dir.user.info["lastname"] = Str("Bar")
              /\ l.changed

\* the scenario of the spec: no record, no position, nothing optional given
C12_Witness ==
    \E p \in Procs :
        /\ Ok(loc[p]) /\ IsPresent(loc[p]) /\ ~loc[p].check_mode
        /\ ~loc[p].startDir.user.present
        /\ loc[p].params0["displayName"] = None
        /\ loc[p].params0["unixhome"] = None
        /\ S(loc[p].params0["position"]) = "" /\ S(loc[p].params0["ou"]) = ""
        /\ loc[p].params0["groups"] = List(<<>>)
        /\ dir.user.dn = "uid=foo,cn=users,dc=ex"
        /\ dir.user.info["displayName"] = Str("Foo Bar")
        /\ dir.user.info["unixhome"] = Str("/home/foo")
        /\ loc[p].changed

\* a record created with the displayName the task gave
C12_WitnessGiven ==
    \E p \in Procs :
        /\ Ok(loc[p]) /\ IsPresent(loc[p]) /\ ~loc[p].check_mode
        /\ ~loc[p].startDir.user.present
        /\ dir.user.info["displayName"] = Str("Dr Foo")


\* the stored password is set and holds no scheme delimiter
StoredUnparseable(stored) == stored # None /\ ~InSeq("}", stored.val)

\* C13: a present pass on an existing record whose stored password has no
\* '}' treats it as needing an update: it stages the plaintext and goes on
\* to the commit; it does not fail.
C13_UnparseableTreatedAsUpdate ==
    \A p \in Procs :
        LET l == loc[p]
        IN (Finished(l) /\ ~l.faulted /\ IsPresent(l) /\ l.exists
              /\ CanOpenUser(l.startDir, l.user_dn)
              /\ StoredUnparseable(l.startDir.user.info["password"]))
           => /\ l.outcome = "ok"
              /\ l.obj.info["password"] = l.params0["password"]
              /\ l.changed

\* what the code does there: the pass fails with the create/edit message
\* before the diff, and nothing is written
C13_UnparseableFails ==
    \A p \in Procs :
        LET l == loc[p]
        IN (Finished(l) /\ ~l.faulted /\ IsPresent(l) /\ l.exists
              /\ CanOpenUser(l.startDir, l.user_dn)
              /\ StoredUnparseable(l.startDir.user.info["password"]))
           => /\ l.outcome = "failed"
              /\ l.msg = FailUser(l, FALSE).msg
              /\ ~l.diff_bound
              /\ dir = l.startDir


StepFailed(l, m) == (m.faulted /\ ~l.faulted) \/ (m.pc = "done" /\ l.pc # "done")

\* C15: a failure while opening, staging, diffing or committing the user
\* record on the present branch ends the pass at once, failed with the
\* create/edit message; the step writes nothing, the pass has committed no
\* user record, and no group was searched, opened or modified.
C15_AttributeFailureAborts ==
    [][\A p \in Procs :
          LET l == loc[p]
              m == loc'[p]
          IN (IsPresent(l) /\ l.pc \in {"open", "diff", "commit"} /\ StepFailed(l, m))
             => /\ m.pc = "done"
                /\ m.outcome = "failed"
                /\ m.msg = "Creating/editing user foo in " \o l.container \o " failed"
                /\ dir' = dir
                /\ dir = l.startDir
                /\ m.ops = <<>>
                /\ m.group_dns = <<>>
                /\ m.grp = NoGrp]_vars

\* a real pass failed in create() with groups still to add
C15_Witness ==
    \E p \in Procs :
        /\ Finished(loc[p]) /\ loc[p].outcome = "failed" /\ loc[p].faulted
        /\ IsPresent(loc[p]) /\ ~loc[p].check_mode /\ ~loc[p].exists
        /\ loc[p].diff_bound
        /\ MissingGroups(loc[p]) # {}
        /\ dir = loc[p].startDir

\* C16: a failure of the group search, of opening a group or of grp.modify()
\* ends the pass at once, failed with the groups message; the step undoes
\* nothing: the directory and the writes issued so far stay as they are, and
\* the groups still in the sequence are left unmodified.
C16_MembershipFailFast ==
    [][\A p \in Procs :
          LET l == loc[p]
              m == loc'[p]
          IN (l.pc \in {"groups", "group"} /\ StepFailed(l, m))
             => /\ m.pc = "done"
                /\ m.outcome = "failed"
                /\ m.msg = "Adding groups to user foo failed"
                /\ dir' = dir
                /\ m.ops = l.ops
                /\ (~l.check_mode /\ ~l.exists => dir.user.present)
                /\ \A i \in 1..Len(l.group_dns) :
                      dir'.groups[l.group_dns[i]] = l.startDir.groups[l.group_dns[i]]
                /\ \A i \in 1..Len(l.ops) :
                      /\ l.ops[i][1] = "group" =>
                            \E g \in ExistingGroups :
                                /\ GroupDn(g) = l.ops[i][2]
                                /\ InSeq(l.user_dn, dir'.groups[g])
                      /\ l.ops[i][1] \in {"create", "modify"} =>
                            dir'.user.present /\ dir'.user.dn = l.ops[i][2]]_vars

\* a real pass created the user, wrote group A and failed on group B
C16_Witness ==
    \E p \in Procs :
        /\ Finished(loc[p]) /\ loc[p].outcome = "failed" /\ loc[p].faulted
        /\ loc[p].ops = << <<"create", loc[p].user_dn>>, <<"group", GroupDn("A")>> >>
        /\ loc[p].group_dns = <<"B">>
        /\ dir.user.present
        /\ InSeq(loc[p].user_dn, dir.groups["A"])
        /\ ~InSeq(loc[p].user_dn, dir.groups["B"])


\* the value a task gives for a key of the object, defaults resolved
Desired(l, k) ==
    IF k \notin ParamKeys THEN None
    ELSE IF k = "displayName" /\ l.params0[k] = None THEN Str("Foo Bar")
    ELSE IF k = "unixhome" /\ l.params0[k] = None THEN Str("/home/foo")
    ELSE l.params0[k]

\* C17: once staging is through, every key of the object other than
\* password, groups and e-mail holds the desired value if the task (defaults
\* resolved) gives one that is not None, and the loaded value otherwise; and
\* e-mail holds the desired email list, whatever was loaded.
C17_AttributeStagingRule ==
    \A p \in Procs :
        LET l == loc[p]
        IN (IsPresent(l) /\ Staged(l))
           => /\ \A k \in UserKeys \ {"password", "groups", "e-mail"} :
                    l.obj.info[k] = IF Desired(l, k) # None THEN Desired(l, k)
                                    ELSE l.obj.oldinfo[k]
              /\ l.obj.info["e-mail"] = l.params0["email"]
              /\ l.obj.info["groups"] = l.obj.oldinfo["groups"]

\* an existing record with a description and an e-mail list was staged by a
\* task that gives no description and another list: the description stays,
\* the list is replaced
C17_Witness ==
    \E p \in Procs :
        /\ IsPresent(loc[p]) /\ Staged(loc[p]) /\ loc[p].exists
        /\ loc[p].params0["description"] = None
        /\ loc[p].obj.oldinfo["description"] = Str("old")
        /\ loc[p].obj.info["description"] = Str("old")
        /\ loc[p].obj.oldinfo["e-mail"] = List(<<"o@ex">>)
        /\ loc[p].obj.info["e-mail"] = List(<<"foo@ex", "f@ex">>)
        /\ loc[p].obj.info["displayName"] = Str("Foo Bar")


\* pass l probed, found no record and took the create path
OnCreatePath(l) ==
    /\ IsPresent(l) /\ ~l.exists
    /\ l.pc \notin {"idle", "search"} /\ l.outcome # "crashed"
\* pass l wrote key k of the user record with modify()
WroteKey(l, k) == OpsOf(l, "modify") # <<>> /\ hasChanged(l.obj, k)
RaceKeys == UserKeys \ {"password", "groups"}

\* C18: two unsynchronised passes race, and only through their stale reads:
\* a pass is on the create path beside a record in the directory only when
\* the other pass created it after the probe, the directory lets one of two
\* creates through, and a value a pass committed with modify() is gone from
\* the record only when the other pass wrote that key or removed the record.
C18_RaceOnlyByStaleRead ==
    \A p \in Procs :
        LET l == loc[p]
            others == Procs \ {p}
        IN /\ (OnCreatePath(l) /\ dir.user.present /\ OpsOf(l, "create") = <<>>)
                => \E q \in others : OpsOf(loc[q], "create") # <<>>
           /\ (OpsOf(l, "create") # <<>>
                => \A q \in others : OpsOf(loc[q], "create") = <<>>)
           /\ \A k \in RaceKeys :
                 (WroteKey(l, k)
                     /\ (~dir.user.present \/ dir.user.info[k] # l.obj.info[k]))
                 => \E q \in others :
                       \/ OpsOf(loc[q], "remove") # <<>>
                       \/ WroteKey(loc[q], k) /\ dir.user.info[k] = loc[q].obj.info[k]

\* duplicate create: both passes probed before either created, both took
\* the create path, one create() went through and the other was refused
C18_Witness ==
    \E p, q \in Procs :
        /\ p # q
        /\ OnCreatePath(loc[p]) /\ OnCreatePath(loc[q])
        /\ ~loc[p].check_mode /\ ~loc[q].check_mode
        /\ ~loc[p].startDir.user.present /\ ~loc[q].startDir.user.present
        /\ OpsOf(loc[p], "create") # <<>>
        /\ Finished(loc[q]) /\ loc[q].outcome = "failed" /\ ~loc[q].faulted
        /\ loc[q].diff_bound

\* lost update: both passes loaded the record, one committed displayName
\* "Dr Foo", the other then committed "Foo Bar" over it from its stale load
C18_WitnessLostUpdate ==
    \E p, q \in Procs :
        /\ p # q
        /\ WroteKey(loc[p], "displayName") /\ WroteKey(loc[q], "displayName")
        /\ loc[p].obj.info["displayName"] = Str("Dr Foo")
        /\ loc[q].obj.oldinfo["displayName"] = Str("Old Name")
        /\ loc[p].obj.oldinfo["displayName"] = Str("Old Name")
        /\ dir.user.info["displayName"] = Str("Foo Bar")
        /\ Ok(loc[p]) /\ Ok(loc[q])


\* C19: whenever the probe has found a record for the identity, the DN the
\* pass opens for edit or for removal is the DN of the record found, whatever
\* position, ou and subpath the task gives.
C19_ProbeTargetAgree ==
    \A p \in Procs :
        LET l == loc[p]
        IN (l.exists /\ l.pc \in {"open", "remove"})
           => /\ dir.user.present
              /\ l.user_dn = dir.user.dn

\* what the code does when they differ: the open at the computed DN finds
\* nothing and the pass fails, the record found left as it was
C19_MismatchFails ==
    \A p \in Procs :
        LET l == loc[p]
        IN (Finished(l) /\ ~l.faulted /\ l.exists
              /\ l.startDir.user.present /\ l.user_dn # l.startDir.user.dn)
           => /\ l.outcome = "failed"
              /\ l.obj = NoObj
              /\ l.ops = <<>>
              /\ dir = l.startDir


\* the names the groups option of pass l gives
DesiredNames(l) ==
    {l.params0["groups"].val[i] : i \in 1..Len(l.params0["groups"].val)}
\* every member of q is a member of r, in the same order
KeepsMembers(q, r) == Len(q) <= Len(r) /\ SubSeq(r, 1, Len(q)) = q

====
